---- MODULE Spec2Model ----
(***************************************************************************)
(* Model of update-claude-dates.py: the timestamp banner generator, the    *)
(* backup / read / replace-or-prepend / write / cleanup sequence of        *)
(* update_claude_md with its restore-on-exception handler, the file        *)
(* locator, and the two modes of main.                                     *)
(*                                                                         *)
(* File content is a sequence of tokens.  The two marker strings are       *)
(* atomic tokens: neither marker overlaps itself or the other (both start  *)
(* with their only '<'), and neither can straddle a seam the code creates, *)
(* so occurrences of the markers in the text are exactly occurrences of    *)
(* the tokens.                                                             *)
(***************************************************************************)
EXTENDS Integers, Sequences, FiniteSets, TLC

\* ------------------------------------------------------------------ bounds
MaxLen == 4       \* longest initial file content, in tokens
MaxClock == 2     \* clock readings 1..MaxClock
MaxRuns == 2      \* invocations of the program in single-file mode
NumFiles == 2     \* files of the tree in directory mode

\* --------------------------------------------------------------- constants
START_MARKER == "S"
END_MARKER == "E"
NL == "n"
Whitespace == {NL}
BACKUP_SUFFIX == ".backup"
TRASH_DIR == ".trash"
NoFile == <<"ENOENT">>

Files == 1 .. NumFiles
Alphabet == {START_MARKER, END_MARKER, "a"}
Texts(n) == UNION {[1 .. k -> Alphabet] : k \in 0 .. n}
DirTexts == {<<"a">>, <<START_MARKER, END_MARKER, "b">>}
Patterns == <<"CLAUDE.md", "claude.md">>
Dirs == {"proj", "old" \o TRASH_DIR, "x" \o BACKUP_SUFFIX}

VARIABLES
  clock,          \* datetime.now()
  fs,             \* content of each target file (NoFile when absent)
  bk,             \* content of each "<path>.backup" (NoFile when absent)
  name, dir, ci,  \* tree: file name, directory kind, case-insensitive fs
  mode,           \* "file" (--file) or "dir"
  mpc,            \* position in main
  claude_files, idx, success_count, summary, exit, runs,
  filepath, upc, content, new_content, result,
  \* history of the current / previous call of update_claude_md
  pre, stamp, failedAt, restored, prevOk, prevOut, prevStamp, calls, rets,
  left            \* what the last finished call on each file left in it

tree == <<name, dir, ci>>
mainVars == <<mode, mpc, claude_files, idx, success_count, summary, exit, runs>>
vars == <<clock, fs, bk, tree, mainVars, filepath, upc, content, new_content, result,
          pre, stamp, failedAt, restored, prevOk, prevOut, prevStamp, calls, rets,
          left>>

\* ------------------------------------------------------------ text helpers
Has(tok, x) == \E i \in 1 .. Len(x) : x[i] = tok

\* str.find(tok, i): least index >= i holding tok, 0 when there is none
Find(x, tok, i) ==
  IF \E j \in i .. Len(x) : x[j] = tok
    THEN CHOOSE j \in i .. Len(x) : x[j] = tok /\ \A k \in i .. j - 1 : x[k] # tok
    ELSE 0

\* what an interrupted write of x leaves: a proper prefix.  The cut falls
\* between tokens; a cut inside a marker leaves plain text, not a marker.
Prefixes(x) == {SubSeq(x, 1, k) : k \in 0 .. Len(x) - 1}

RECURSIVE lstrip(_)
lstrip(x) == IF x # <<>> /\ Head(x) \in Whitespace THEN lstrip(Tail(x)) ELSE x

RECURSIVE rstrip(_)
rstrip(x) ==
  IF x # <<>> /\ x[Len(x)] \in Whitespace THEN rstrip(SubSeq(x, 1, Len(x) - 1)) ELSE x

strip(x) == rstrip(lstrip(x))

\* ------------------------------------------------------- banner generator
\* datetime.now(): a reading no earlier than the last one
Now == clock .. MaxClock

Body(now) == "T" \o ToString(now)

create_timestamp_section(now) == <<NL, START_MARKER, Body(now), END_MARKER, NL>>

\* pattern.sub(repl, x): every non-overlapping leftmost match of
\* START .*? END (DOTALL), scanning from position i
\* pattern.sub(repl, x, count=1)
pattern_sub_first(repl, x, i) ==
  LET s == Find(x, START_MARKER, i)
      e == IF s = 0 THEN 0 ELSE Find(x, END_MARKER, s + 1)
  IN IF e = 0
       THEN SubSeq(x, i, Len(x))
       ELSE SubSeq(x, i, s - 1) \o repl \o SubSeq(x, e + 1, Len(x))

RECURSIVE pattern_sub(_, _, _)
pattern_sub(repl, x, i) ==
  LET s == Find(x, START_MARKER, i)
      e == IF s = 0 THEN 0 ELSE Find(x, END_MARKER, s + 1)
  IN IF e = 0
       THEN SubSeq(x, i, Len(x))
       ELSE SubSeq(x, i, s - 1) \o repl \o pattern_sub(repl, x, e + 1)

\* the replacement passed to pattern.sub without .strip()
Replacement_NoStrip(now) == create_timestamp_section(now)

Replacement(now) == strip(create_timestamp_section(now))

\* the banner added at the end instead of the very beginning
NewContent_Append(c, now) ==
  IF Has(START_MARKER, c) /\ Has(END_MARKER, c)
    THEN pattern_sub(strip(create_timestamp_section(now)), c, 1)
    ELSE c \o <<NL>> \o create_timestamp_section(now)

\* no test for an existing section
NewContent_AlwaysPrepend(c, now) == create_timestamp_section(now) \o <<NL>> \o c

\* "or" for "and" in the marker test
NewContent_Or(c, now) ==
  IF Has(START_MARKER, c) \/ Has(END_MARKER, c)
    THEN pattern_sub(strip(create_timestamp_section(now)), c, 1)
    ELSE create_timestamp_section(now) \o <<NL>> \o c

NewContent(c, now) ==
  IF Has(START_MARKER, c) /\ Has(END_MARKER, c)
    THEN pattern_sub(Replacement(now), c, 1)
    ELSE create_timestamp_section(now) \o <<NL>> \o c

\* ------------------------------------------------------------ file locator
Matches(f, p) == name[f] = p \/ ci

RECURSIVE rglob(_, _)
rglob(p, f) ==
  IF f > NumFiles THEN <<>>
  ELSE (IF fs[f] # NoFile /\ Matches(f, p) THEN <<f>> ELSE <<>>) \o rglob(p, f + 1)

Skipped(f) == dir[f] \in {"old" \o TRASH_DIR, "x" \o BACKUP_SUFFIX}

find_all_claude_md_files ==
  SelectSeq(rglob(Patterns[1], 1) \o rglob(Patterns[2], 1), LAMBDA f : ~Skipped(f))

\* ------------------------------------------------------- update_claude_md
\* entry of update_claude_md(f)
Call(f) ==
  /\ filepath' = f
  /\ upc' = "copy"
  /\ content' = <<>>
  /\ new_content' = <<>>
  /\ result' = "none"
  /\ pre' = fs[f]
  /\ failedAt' = "none"
  /\ restored' = FALSE
  /\ stamp' = 0
  /\ calls' = Append(calls, f)
  /\ UNCHANGED <<clock, fs, bk, tree, rets, prevOk, prevOut, prevStamp, left>>

\* what one statement of update_claude_md leaves alone
Frame ==
  /\ UNCHANGED <<tree, mainVars, filepath, pre, prevOk, prevOut, prevStamp, calls>>
  /\ left' = IF upc' \in {"done", "raised"}
               THEN [left EXCEPT ![filepath] = fs'[filepath]]
               ELSE left

\* control passes to the except clause (line 95)
Raise(at) == upc' = "except" /\ failedAt' = at /\ UNCHANGED <<result, rets, restored>>

\* the function returns r
Return(r) == upc' = "done" /\ result' = r /\ rets' = Append(rets, r)

\* shutil.copy2(filepath, backup_path)
Copy2 ==
  /\ upc = "copy"
  /\ \/ /\ bk' = [bk EXCEPT ![filepath] = fs[filepath]]
        /\ upc' = "read"
        /\ UNCHANGED <<failedAt, result, rets, restored>>
     \/ /\ UNCHANGED bk                      \* the destination could not be opened
        /\ Raise("copy")
     \/ /\ \E p \in Prefixes(fs[filepath]) : bk' = [bk EXCEPT ![filepath] = p]
        /\ Raise("copy")                     \* the copy broke off part-way
     \/ /\ bk' = [bk EXCEPT ![filepath] = fs[filepath]]
        /\ Raise("copy")                     \* data copied, copystat failed
  /\ UNCHANGED <<clock, fs, content, new_content, stamp>>
  /\ Frame

\* with open(filepath, 'r') as f: content = f.read()
ReadContent ==
  /\ upc = "read"
  /\ \/ /\ content' = fs[filepath]
        /\ upc' = "compute"
        /\ UNCHANGED <<failedAt, result, rets, restored>>
     \/ /\ UNCHANGED content
        /\ Raise("read")
  /\ UNCHANGED <<clock, fs, bk, new_content, stamp>>
  /\ Frame

\* the marker test and the replace-or-prepend; reads the clock once
Compute ==
  /\ upc = "compute"
  /\ \/ /\ \E now \in Now : /\ clock' = now
                             /\ new_content' = NewContent(content, now)
                             /\ stamp' = now
        /\ upc' = "write"
        /\ UNCHANGED <<failedAt, result, rets, restored>>
     \/ /\ UNCHANGED <<clock, new_content, stamp>>
        /\ Raise("compute")
  /\ UNCHANGED <<fs, bk, content>>
  /\ Frame

\* with open(filepath, 'w') as f: f.write(new_content)
WriteContent ==
  /\ upc = "write"
  /\ \/ /\ fs' = [fs EXCEPT ![filepath] = new_content]
        /\ upc' = "remove"
        /\ UNCHANGED <<failedAt, result, rets, restored>>
     \/ /\ UNCHANGED fs                      \* open(..., 'w') failed
        /\ Raise("open")
     \/ /\ \E p \in Prefixes(new_content) : fs' = [fs EXCEPT ![filepath] = p]
        /\ Raise("write")                    \* truncated, then written in part
     \/ /\ fs' = [fs EXCEPT ![filepath] = new_content]
        /\ Raise("close")                    \* written, close failed
  /\ UNCHANGED <<clock, bk, content, new_content, stamp>>
  /\ Frame

\* os.remove(backup_path); return True
RemoveBackup ==
  /\ upc = "remove"
  /\ \/ /\ bk' = [bk EXCEPT ![filepath] = NoFile]
        /\ Return("True")
        /\ UNCHANGED <<failedAt, restored>>
     \/ /\ UNCHANGED bk
        /\ Raise("remove")
  /\ UNCHANGED <<clock, fs, content, new_content, stamp>>
  /\ Frame

\* the backup removed without being moved back
Restore_Discard(f) ==
  /\ UNCHANGED fs
  /\ bk' = [bk EXCEPT ![f] = NoFile]

\* shutil.copy for shutil.move: the backup stays
Restore_CopyOnly(f) ==
  /\ fs' = [fs EXCEPT ![f] = bk[f]]
  /\ UNCHANGED bk

\* shutil.move(backup_path, filepath), when it succeeds
Restore(f) ==
  /\ fs' = [fs EXCEPT ![f] = bk[f]]
  /\ bk' = [bk EXCEPT ![f] = NoFile]

\* except Exception: restore from the backup if it exists; return False
Except ==
  /\ upc = "except"
  /\ \/ /\ bk[filepath] = NoFile
        /\ UNCHANGED <<fs, bk, restored>>
        /\ Return("False")
     \/ /\ bk[filepath] # NoFile
        /\ Restore(filepath)
        /\ restored' = TRUE
        /\ Return("False")
     \/ /\ bk[filepath] # NoFile             \* shutil.move raises: nothing catches it
        /\ \/ UNCHANGED fs
           \/ \E p \in Prefixes(bk[filepath]) : fs' = [fs EXCEPT ![filepath] = p]
        /\ UNCHANGED <<bk, restored>>
        /\ upc' = "raised"
        /\ result' = "raised"
        /\ rets' = Append(rets, "raised")
  /\ UNCHANGED <<clock, content, new_content, stamp, failedAt>>
  /\ Frame

update_claude_md == Copy2 \/ ReadContent \/ Compute \/ WriteContent \/ RemoveBackup \/ Except

\* ------------------------------------------------------------------- main
MainIdle ==
  UNCHANGED <<clock, fs, bk, tree, filepath, upc, content, new_content, result,
              pre, stamp, failedAt, restored, prevOk, prevOut, prevStamp, calls, rets,
              left>>

\* --file: the existence check and the call
MainFile ==
  /\ mode = "file" /\ mpc = "start"
  /\ \/ /\ fs[1] = NoFile
        /\ mpc' = "done" /\ exit' = 1
        /\ MainIdle
     \/ /\ fs[1] # NoFile
        /\ mpc' = "call" /\ UNCHANGED exit
        /\ Call(1)
  /\ UNCHANGED <<mode, claude_files, idx, success_count, summary, runs>>

\* --file: the result of the call decides the exit status
MainFileRet ==
  /\ mode = "file" /\ mpc = "call"
  /\ \/ /\ upc = "done" /\ result = "True" /\ mpc' = "done" /\ exit' = 0
     \/ /\ upc = "done" /\ result = "False" /\ mpc' = "done" /\ exit' = 1
     \/ /\ upc = "raised" /\ mpc' = "crashed" /\ exit' = 1
  /\ MainIdle
  /\ UNCHANGED <<mode, claude_files, idx, success_count, summary, runs>>

\* the program is run again on the same file: a fresh process, which keeps
\* nothing of the last one but the files
Reinvoke ==
  /\ mode = "file" /\ mpc \in {"done", "crashed"}
  /\ runs < MaxRuns
  /\ runs' = runs + 1
  /\ mpc' = "start" /\ exit' = -1
  /\ upc' = "idle" /\ content' = <<>> /\ new_content' = <<>> /\ result' = "none"
  /\ pre' = <<>> /\ stamp' = 0 /\ failedAt' = "none" /\ restored' = FALSE
  /\ calls' = <<>> /\ rets' = <<>>
  /\ prevOk' = (result = "True")
  /\ prevOut' = IF result = "True" THEN fs[filepath] ELSE <<>>
  /\ prevStamp' = IF result = "True" THEN stamp ELSE 0
  /\ UNCHANGED <<clock, fs, bk, tree, filepath, left>>
  /\ UNCHANGED <<mode, claude_files, idx, success_count, summary>>

\* directory mode: locate the files; none found ends the run
MainDirFind ==
  /\ mode = "dir" /\ mpc = "start"
  /\ claude_files' = find_all_claude_md_files
  /\ \/ /\ claude_files' = <<>>
        /\ mpc' = "done" /\ exit' = 0
        /\ UNCHANGED <<idx, success_count>>
     \/ /\ claude_files' # <<>>
        /\ mpc' = "loop" /\ UNCHANGED exit
        /\ idx' = 1 /\ success_count' = 0
  /\ MainIdle
  /\ UNCHANGED <<mode, summary, runs>>

\* for filepath in claude_files: update_claude_md(filepath)
MainDirCall ==
  /\ mode = "dir" /\ mpc = "loop"
  /\ idx <= Len(claude_files)
  /\ mpc' = "call"
  /\ Call(claude_files[idx])
  /\ UNCHANGED <<mode, claude_files, idx, success_count, summary, exit, runs>>

\* the result of the call: counted on success, reported on failure
MainDirRet ==
  /\ mode = "dir" /\ mpc = "call"
  /\ \/ /\ upc = "done" /\ result = "True"
        /\ success_count' = success_count + 1
        /\ idx' = idx + 1 /\ mpc' = "loop" /\ UNCHANGED exit
     \/ /\ upc = "done" /\ result = "False"
        /\ UNCHANGED success_count
        /\ idx' = idx + 1 /\ mpc' = "loop" /\ UNCHANGED exit
     \/ /\ upc = "raised"                    \* the exception leaves main
        /\ mpc' = "crashed" /\ exit' = 1
        /\ UNCHANGED <<idx, success_count>>
  /\ MainIdle
  /\ UNCHANGED <<mode, claude_files, summary, runs>>

\* after the loop: the summary line, exit status 0
MainDirSummary ==
  /\ mode = "dir" /\ mpc = "loop"
  /\ idx > Len(claude_files)
  /\ summary' = <<success_count, Len(claude_files)>>
  /\ mpc' = "done" /\ exit' = 0
  /\ MainIdle
  /\ UNCHANGED <<mode, claude_files, idx, success_count, runs>>

Init ==
  /\ clock = 1
  /\ \E c \in Texts(MaxLen) \cup {NoFile} : fs = [f \in Files |-> IF f = 1 THEN c ELSE NoFile]
  /\ bk = [f \in Files |-> NoFile]
  /\ name = [f \in Files |-> Patterns[1]]
  /\ dir = [f \in Files |-> "proj"]
  /\ ci = FALSE
  /\ mode = "file" /\ mpc = "start"
  /\ claude_files = <<>> /\ idx = 0 /\ success_count = 0 /\ summary = <<>>
  /\ exit = -1 /\ runs = 1
  /\ filepath = 1 /\ upc = "idle" /\ content = <<>> /\ new_content = <<>>
  /\ result = "none"
  /\ pre = <<>> /\ stamp = 0 /\ failedAt = "none" /\ restored = FALSE
  /\ prevOk = FALSE /\ prevOut = <<>> /\ prevStamp = 0
  /\ calls = <<>> /\ rets = <<>>
  /\ left = fs

Next == update_claude_md \/ MainFile \/ MainFileRet \/ Reinvoke

Spec == Init /\ [][Next]_vars

\* directory mode over a tree of NumFiles files
InitDir ==
  /\ clock = 1
  /\ fs \in [Files -> DirTexts]
  /\ bk = [f \in Files |-> NoFile]
  /\ name \in [Files -> {Patterns[1], Patterns[2]}]
  /\ dir \in [Files -> Dirs]
  /\ ci \in BOOLEAN
  /\ mode = "dir" /\ mpc = "start"
  /\ claude_files = <<>> /\ idx = 0 /\ success_count = 0 /\ summary = <<>>
  /\ exit = -1 /\ runs = 1
  /\ filepath = 1 /\ upc = "idle" /\ content = <<>> /\ new_content = <<>>
  /\ result = "none"
  /\ pre = <<>> /\ stamp = 0 /\ failedAt = "none" /\ restored = FALSE
  /\ prevOk = FALSE /\ prevOut = <<>> /\ prevStamp = 0
  /\ calls = <<>> /\ rets = <<>>
  /\ left = fs

NextDir == update_claude_md \/ MainDirFind \/ MainDirCall \/ MainDirRet \/ MainDirSummary

SpecDir == InitDir /\ [][NextDir]_vars

\* ------------------------------------------------------------- properties
Returned == upc = "done"
Succeeded == upc = "done" /\ result = "True"
Out == fs[filepath]

Count(tok, x) == Cardinality({i \in 1 .. Len(x) : x[i] = tok})

\* the banner text expected for clock reading t, written out
BannerAt(t) == <<"n", "S", Body(t), "E", "n">>
BlockAt(t) == <<"S", Body(t), "E">>

\* the marker-delimited regions of x, left to right: each runs from a start
\* marker through the nearest end marker after it
RECURSIVE RegionsFrom(_, _)
RegionsFrom(x, i) ==
  IF \E s \in i .. Len(x) : x[s] = "S" /\ \E e \in s + 1 .. Len(x) : x[e] = "E"
    THEN LET s == CHOOSE k \in i .. Len(x) :
                    x[k] = "S" /\ \A j \in i .. k - 1 : x[j] # "S"
             e == CHOOSE k \in s + 1 .. Len(x) :
                    x[k] = "E" /\ \A j \in s + 1 .. k - 1 : x[j] # "E"
         IN <<SubSeq(x, s, e)>> \o RegionsFrom(x, e + 1)
    ELSE <<>>

Regions(x) == RegionsFrom(x, 1)

\* x with each region collapsed to the one token "R"
RECURSIVE OutsideFrom(_, _)
OutsideFrom(x, i) ==
  IF \E s \in i .. Len(x) : x[s] = "S" /\ \E e \in s + 1 .. Len(x) : x[e] = "E"
    THEN LET s == CHOOSE k \in i .. Len(x) :
                    x[k] = "S" /\ \A j \in i .. k - 1 : x[j] # "S"
             e == CHOOSE k \in s + 1 .. Len(x) :
                    x[k] = "E" /\ \A j \in s + 1 .. k - 1 : x[j] # "E"
         IN SubSeq(x, i, s - 1) \o <<"R">> \o OutsideFrom(x, e + 1)
    ELSE SubSeq(x, i, Len(x))

Outside(x) == OutsideFrom(x, 1)

NoMarkers(x) == ~Has("S", x) /\ ~Has("E", x)

OnePair(x) ==
  /\ Count("S", x) = 1 /\ Count("E", x) = 1
  /\ Find(x, "S", 1) < Find(x, "E", 1)

Before(x) == SubSeq(x, 1, Find(x, "S", 1) - 1)
After(x) == SubSeq(x, Find(x, "E", 1) + 1, Len(x))

C3_RestoredAfterFailure ==
  (Returned /\ failedAt \in {"read", "compute", "open", "write", "close"}) =>
    /\ result = "False"
    /\ Out = pre

C3_Witness ==
  /\ Returned /\ failedAt = "write" /\ result = "False" /\ restored
  /\ pre = <<"a", "a">> /\ Out = pre

\* C4: after any successful update, whatever the prior content, the file
\* holds exactly one marker-delimited region.
C4_ExactlyOneBanner == Succeeded => Len(Regions(Out)) = 1

\* C5: two successive successful runs that read the same clock leave the
\* same file content: the second run changes nothing.
C5_Idempotent ==
  (mode = "file" /\ Succeeded /\ prevOk /\ prevStamp = stamp) => Out = prevOut

C5_Witness ==
  /\ mode = "file" /\ Succeeded /\ prevOk /\ prevStamp = stamp /\ runs = 2
  /\ Out = <<"n", "S", "T1", "E", "n", "n", "S", "a">>

StartOnly(x) == Has("S", x) /\ ~Has("E", x)
Prepended == Out = BannerAt(stamp) \o <<"n">> \o pre

CountTrue(r) == Cardinality({i \in 1 .. Len(r) : r[i] = "True"})

\* C9: in directory mode main calls update_claude_md once on each located
\* path, in order, whatever the earlier calls did; no call changes a file
\* other than its own; and the summary gives the number of calls that
\* returned True out of the number of located paths.
C9_PerFileIsolation ==
  /\ \A f \in Files : (f # filepath \/ upc \in {"idle", "done", "raised"}) => fs[f] = left[f]
  /\ (mode = "dir" /\ mpc \in {"done", "crashed"}) =>
       /\ calls = claude_files
       /\ claude_files # <<>> => summary = <<CountTrue(rets), Len(claude_files)>>

\* What of C9 does hold: when the run reaches its end without an exception
\* leaving update_claude_md, every located path was called once in order, no
\* call changed another file, and the summary counts the calls that
\* returned True.
C9_WhenNothingEscapes ==
  /\ \A f \in Files : (f # filepath \/ upc \in {"idle", "done", "raised"}) => fs[f] = left[f]
  /\ (mode = "dir" /\ mpc = "done") =>
       /\ calls = claude_files
       /\ claude_files # <<>> => summary = <<CountTrue(rets), Len(claude_files)>>

\* C10: when the copy to the backup path fails, update_claude_md returns
\* False and the target file holds what it held before the call.
C10_TargetIntactWhenBackupFails ==
  (Returned /\ failedAt = "copy") => (result = "False" /\ Out = pre)
====
